---- MODULE Spec2Model ----
(***************************************************************************)
(* Model of the array-backed binary search tree of src/src/lib.rs:         *)
(* BinaryTree (a boxed slice of Option<(K, V)>), its search walk, insert   *)
(* with growth, get, and the consuming in-order iterator built from        *)
(* BiTreeIndexIter.                                                        *)
(*                                                                         *)
(* Options are modelled as sequences of length at most one: None is <<>>   *)
(* and Some(x) is <<x>>.  A slice is a sequence; Rust index i is TLA+      *)
(* index i + 1.                                                            *)
(***************************************************************************)
EXTENDS Integers, Sequences, FiniteSets

VARIABLES mem, pc, args, indexer, model, last, yielded, emitted, snapshot, ub

vars == <<mem, pc, args, indexer, model, last, yielded, emitted, snapshot, ub>>

\* ---------------------------------------------------------------- bounds
MaxKey == 4
MaxVal == 2
MaxInitCap == 3
MaxIndex == 14
MaxNones == 2

Keys == 1..MaxKey
Vals == 1..MaxVal

\* ------------------------------------------------------------- constants
DefaultCapacity == 8

\* --------------------------------------------------------------- options
None == <<>>
Some(x) == <<x>>

\* ------------------------------------------------------------ mod BiTree
BiTree_is_right(index) == index % 2 = 0

BiTree_parrent(index) ==
    IF index > 0
    THEN Some(IF BiTree_is_right(index) THEN (index - 2) \div 2
                                        ELSE (index - 1) \div 2)
    ELSE None

BiTree_right_skewed(index) == index * 2 + 3

BiTree_right(index) == index * 2 + 2

BiTree_left(index) == index * 2 + 1

\* ------------------------------------------------------------ BinaryTree
with_capacity_unclamped(capacity) == [i \in 1..capacity |-> None]

with_capacity(capacity) ==
    LET clamped == IF capacity > 1 THEN capacity ELSE 1
    IN  [i \in 1..clamped |-> None]

new == with_capacity(DefaultCapacity)

capacity(m) == Len(m)

RECURSIVE walk(_, _, _)
walk(m, key, index) ==
    IF index < Len(m) /\ m[index + 1] # None
    THEN LET r_key == m[index + 1][1][1]
         IN  IF r_key = key
             THEN index
             ELSE walk(m, key, IF key < r_key THEN BiTree_left(index)
                                              ELSE BiTree_right(index))
    ELSE index

RECURSIVE walk_flipped(_, _, _)
walk_flipped(m, key, index) ==
    IF index < Len(m) /\ m[index + 1] # None
    THEN LET r_key == m[index + 1][1][1]
         IN  IF r_key = key
             THEN index
             ELSE walk_flipped(m, key, IF key < r_key THEN BiTree_right(index)
                                                      ELSE BiTree_left(index))
    ELSE index

find_index_flipped(m, key) == walk_flipped(m, key, 0)

RECURSIVE walk_left_only(_, _, _)
walk_left_only(m, key, index) ==
    IF index < Len(m) /\ m[index + 1] # None
    THEN IF m[index + 1][1][1] = key
         THEN index
         ELSE walk_left_only(m, key, BiTree_left(index))
    ELSE index

find_index_left_only(m, key) == walk_left_only(m, key, 0)

find_index(m, key) == walk(m, key, 0)

grow_shifted(m) ==
    [i \in 1..(capacity(m) * 2) |->
        IF i = 1 THEN None ELSE IF i <= Len(m) + 1 THEN m[i - 1] ELSE None]

grow_plus_one(m) ==
    [i \in 1..(capacity(m) * 2 + 1) |-> IF i <= Len(m) THEN m[i] ELSE None]

grow(m) ==
    LET new_capacity == capacity(m) * 2
    IN  [i \in 1..new_capacity |-> IF i <= Len(m) THEN m[i] ELSE None]

\* One invocation of insert: the walk, then either the write or a growth
\* followed by the recursive call (retry = TRUE).
insert_no_result(m, key, value) ==
    LET index == find_index(m, key)
    IN  IF index < Len(m)
        THEN [mem    |-> [m EXCEPT ![index + 1] = Some(<<key, value>>)],
              result |-> None,
              retry  |-> FALSE]
        ELSE [mem |-> grow(m), result |-> None, retry |-> TRUE]

insert(m, key, value) ==
    LET index == find_index(m, key)
    IN  IF index < Len(m)
        THEN [mem    |-> [m EXCEPT ![index + 1] = Some(<<key, value>>)],
              result |-> IF m[index + 1] = None THEN None
                         ELSE Some(m[index + 1][1][2]),
              retry  |-> FALSE]
        ELSE [mem |-> grow(m), result |-> None, retry |-> TRUE]

get_root_only(m, key) ==
    IF m[1] # None /\ m[1][1][1] = key THEN Some(m[1][1][2]) ELSE None

get(m, key) ==
    LET index == find_index(m, key)
    IN  IF index < Len(m)
        THEN IF m[index + 1] = None THEN None ELSE Some(m[index + 1][1][2])
        ELSE None

\* ------------------------------------------------------- BiTreeIndexIter
BiTreeIndexIter_new(cap) == [capacity |-> cap, stack |-> <<>>, current |-> Some(0)]

BiTreeIndexIter_left_inclusive(it, node) ==
    LET index == BiTree_left(node)
    IN  IF index <= it.capacity THEN Some(index) ELSE None

BiTreeIndexIter_left(it, node) ==
    LET index == BiTree_left(node)
    IN  IF index < it.capacity THEN Some(index) ELSE None

BiTreeIndexIter_right(it, node) ==
    LET index == BiTree_right(node)
    IN  IF index < it.capacity THEN Some(index) ELSE None

RECURSIVE BiTreeIndexIter_next(_)
BiTreeIndexIter_next(it) ==
    IF it.current # None
    THEN LET node == it.current[1]
         IN  BiTreeIndexIter_next([it EXCEPT !.stack = Append(@, node),
                                             !.current = BiTreeIndexIter_left(it, node)])
    ELSE IF it.stack # <<>>
    THEN LET node == it.stack[Len(it.stack)]
         IN  [it  |-> [it EXCEPT !.stack = SubSeq(@, 1, Len(@) - 1),
                                 !.current = BiTreeIndexIter_right(it, node)],
              out |-> Some(node)]
    ELSE [it |-> it, out |-> None]

\* -------------------------------------------------------- BinaryTreeIter
\* The loop of BinaryTreeIter::next.  em accumulates the indices the index
\* generator handed out.  An index outside the slice makes the unchecked
\* access undefined; the loop stops there with oob = TRUE.
RECURSIVE BinaryTreeIter_next_keep(_, _, _)
BinaryTreeIter_next_keep(tree, it, em) ==
    LET r == BiTreeIndexIter_next(it)
    IN  IF r.out = None
        THEN [tree |-> tree, it |-> r.it, em |-> em, out |-> None, oob |-> FALSE]
        ELSE LET index == r.out[1]
             IN  IF index >= Len(tree)
                 THEN [tree |-> tree, it |-> r.it, em |-> Append(em, index),
                       out |-> None, oob |-> TRUE]
                 ELSE IF tree[index + 1] # None
                 THEN [tree |-> tree,
                       it |-> r.it, em |-> Append(em, index),
                       out |-> Some(tree[index + 1][1]), oob |-> FALSE]
                 ELSE BinaryTreeIter_next_keep(tree, r.it, Append(em, index))

RECURSIVE BinaryTreeIter_next(_, _, _)
BinaryTreeIter_next(tree, it, em) ==
    LET r == BiTreeIndexIter_next(it)
    IN  IF r.out = None
        THEN [tree |-> tree, it |-> r.it, em |-> em, out |-> None, oob |-> FALSE]
        ELSE LET index == r.out[1]
             IN  IF index >= Len(tree)
                 THEN [tree |-> tree, it |-> r.it, em |-> Append(em, index),
                       out |-> None, oob |-> TRUE]
                 ELSE IF tree[index + 1] # None
                 THEN [tree |-> [tree EXCEPT ![index + 1] = None],
                       it |-> r.it, em |-> Append(em, index),
                       out |-> Some(tree[index + 1][1]), oob |-> FALSE]
                 ELSE BinaryTreeIter_next(tree, r.it, Append(em, index))

\* ----------------------------------------------------------------- state
NoIndexer == [capacity |-> 0, stack |-> <<>>, current |-> None]

NoCall == [op |-> "none", key |-> 0, val |-> 0, ret |-> None, pre |-> <<>>,
           prior |-> None, target |-> 0, nones |-> 0]

Init ==
    /\ mem \in {with_capacity(c) : c \in 0..MaxInitCap} \cup {new}
    /\ pc = "idle"
    /\ args = None
    /\ indexer = NoIndexer
    /\ model = [k \in Keys |-> None]
    /\ last = NoCall
    /\ yielded = <<>>
    /\ emitted = <<>>
    /\ snapshot = {}
    /\ ub = FALSE

\* The outermost invocation of insert(key, value).
Insert(key, value) ==
    /\ pc = "idle"
    /\ find_index(mem, key) <= MaxIndex
    /\ LET r == insert(mem, key, value)
       IN  /\ mem' = r.mem
           /\ pc' = IF r.retry THEN "retry" ELSE "idle"
           /\ args' = IF r.retry THEN Some(<<key, value>>) ELSE None
           /\ model' = IF r.retry THEN model ELSE [model EXCEPT ![key] = Some(value)]
           /\ last' = [op |-> "insert", key |-> key, val |-> value, ret |-> r.result,
                       pre |-> mem, prior |-> model[key],
                       target |-> find_index(mem, key), nones |-> 0]
    /\ UNCHANGED <<indexer, yielded, emitted, snapshot, ub>>

\* The recursive invocation self.insert(key, value) after self.grow().
InsertRetry ==
    /\ pc = "retry"
    /\ LET key == args[1][1]
           value == args[1][2]
           r == insert(mem, key, value)
       IN  /\ mem' = r.mem
           /\ pc' = IF r.retry THEN "retry" ELSE "idle"
           /\ args' = IF r.retry THEN args ELSE None
           /\ model' = IF r.retry THEN model ELSE [model EXCEPT ![key] = Some(value)]
           /\ last' = [last EXCEPT !.ret = r.result]
    /\ UNCHANGED <<indexer, yielded, emitted, snapshot, ub>>

Get(key) ==
    /\ pc = "idle"
    /\ last' = [NoCall EXCEPT !.op = "get", !.key = key, !.ret = get(mem, key)]
    /\ UNCHANGED <<mem, pc, args, indexer, model, yielded, emitted, snapshot, ub>>

Entries(m) == {m[i][1] : i \in {j \in 1..Len(m) : m[j] # None}}

IntoIter ==
    /\ pc = "idle"
    /\ pc' = "iter"
    /\ indexer' = BiTreeIndexIter_new(capacity(mem))
    /\ snapshot' = Entries(mem)
    /\ last' = [NoCall EXCEPT !.op = "into_iter"]
    /\ UNCHANGED <<mem, args, model, yielded, emitted, ub>>

IterNext ==
    /\ pc = "iter"
    /\ last.nones < MaxNones
    /\ ~ub
    /\ LET r == BinaryTreeIter_next(mem, indexer, emitted)
       IN  /\ indexer' = r.it
           /\ emitted' = r.em
           /\ ub' = r.oob
           \* an out-of-bounds unchecked access may leave the slice as it is
           \* or clobber it
           /\ IF r.oob
              THEN mem' \in {r.tree, [i \in 1..Len(mem) |-> None]}
              ELSE mem' = r.tree
           /\ yielded' = IF r.out = None THEN yielded ELSE Append(yielded, r.out[1])
           /\ last' = [NoCall EXCEPT !.op = "next", !.ret = r.out,
                          !.nones = IF r.out = None THEN last.nones + 1 ELSE last.nones]
    /\ UNCHANGED <<pc, args, model, snapshot>>

Next ==
    \/ \E key \in Keys, value \in Vals : Insert(key, value)
    \/ InsertRetry
    \/ \E key \in Keys : Get(key)
    \/ IntoIter
    \/ IterNext

Spec == Init /\ [][Next]_vars

\* insert runs to completion: once the recursive call is pending it is taken.
LiveSpec == Spec /\ WF_vars(InsertRetry)

\* ------------------------------------------------------- derived notions
Occupied(m) == {i \in 0..(Len(m) - 1) : m[i + 1] # None}

KeyAt(m, i) == m[i + 1][1][1]

ValAt(m, i) == m[i + 1][1][2]

Range(s) == {s[i] : i \in 1..Len(s)}

IsPrefix(s, t) == Len(s) <= Len(t) /\ SubSeq(t, 1, Len(s)) = s

\* j lies in the subtree of the implicit tree rooted at r
RECURSIVE InSubtree(_, _)
InSubtree(j, r) ==
    \/ j = r
    \/ j > r /\ InSubtree(BiTree_parrent(j)[1], r)

\* in-order listing of the indices below cap in the subtree rooted at i
RECURSIVE InOrder(_, _)
InOrder(i, cap) ==
    IF i >= cap THEN <<>>
    ELSE InOrder(2 * i + 1, cap) \o <<i>> \o InOrder(2 * i + 2, cap)

\* least c * 2^n that exceeds t
RECURSIVE LeastCap(_, _)
LeastCap(c, t) == IF t < c THEN c ELSE LeastCap(2 * c, t)

InsertDone == pc = "idle" /\ last.op = "insert"

\* ----------------------------------------------------------------- C1
\* C1: the consuming traversal yields keys in strictly ascending order:
\* every yielded key is strictly greater than the one yielded before it.
C1_AscendingTraversal ==
    \A i \in 1..(Len(yielded) - 1) : yielded[i][1] < yielded[i + 1][1]

C1_Witness ==
    /\ pc = "iter"
    /\ last.nones > 0
    /\ Len(yielded) >= 3
    /\ Len(mem) = 12

\* ----------------------------------------------------------------- C2
\* C2: before traversal, get agrees with the abstract key-to-value map kept
\* side by side: the latest inserted value for an inserted key, absence for
\* a key never inserted; and every get call returned what the map holds.
C2_GetRefinesMap ==
    pc = "idle" =>
        /\ \A k \in Keys : get(mem, k) = model[k]
        /\ last.op = "get" => last.ret = model[last.key]

C2_Witness ==
    /\ pc = "idle"
    /\ last.op = "get"
    /\ last.ret # None
    /\ \E k \in Keys : model[k] = None
    /\ Cardinality(Occupied(mem)) >= 2
    /\ Len(mem) = 6

\* ----------------------------------------------------------------- C3
\* C3: insert of a present key returns the value stored before and leaves
\* the number of occupied slots and the capacity unchanged; insert of an
\* absent key returns nothing and adds exactly one occupied slot.
C3_InsertResult ==
    InsertDone =>
        LET before == Cardinality(Occupied(last.pre))
            after  == Cardinality(Occupied(mem))
        IN  IF last.prior # None
            THEN /\ last.ret = last.prior
                 /\ after = before
                 /\ Len(mem) = Len(last.pre)
            ELSE /\ last.ret = None
                 /\ after = before + 1

C3_Witness ==
    /\ InsertDone
    /\ last.prior # None
    /\ last.prior # Some(last.val)
    /\ Cardinality(Occupied(mem)) >= 3

\* ----------------------------------------------------------------- C4
\* C4: an insert call, growths included, changes no slot but the one written
\* for the key: old slots keep their content at their index, added slots
\* are empty, and every pair stored before is still returned by get.
C4_InsertFrame ==
    /\ pc = "retry" =>
          /\ Len(mem) >= Len(last.pre)
          /\ \A i \in 0..(Len(mem) - 1) :
                mem[i + 1] = IF i < Len(last.pre) THEN last.pre[i + 1] ELSE None
    /\ InsertDone =>
          /\ Len(mem) >= Len(last.pre)
          /\ \E w \in 0..(Len(mem) - 1) :
                /\ mem[w + 1] = Some(<<last.key, last.val>>)
                /\ \A i \in (0..(Len(mem) - 1)) \ {w} :
                      mem[i + 1] = IF i < Len(last.pre) THEN last.pre[i + 1] ELSE None
          /\ \A e \in Entries(last.pre) :
                e[1] # last.key => get(mem, e[1]) = Some(e[2])

C4_Witness ==
    /\ InsertDone
    /\ Len(last.pre) = 3
    /\ Len(mem) = 12
    /\ Cardinality(Occupied(last.pre)) >= 2

\* ----------------------------------------------------------------- C5
\* C5: growth happens exactly when the walk target is out of bounds, every
\* growth doubles the capacity, and an insert on capacity c with target t
\* ends with capacity c * 2^n for the least n with t < c * 2^n.
C5_GrowthDoubling ==
    /\ [](last.op = "insert" =>
            /\ last.target = find_index(last.pre, last.key)
            /\ (Len(mem) # Len(last.pre)) <=> (last.target >= Len(last.pre))
            /\ pc = "retry" => find_index(mem, args[1][1]) = last.target
            /\ pc = "idle" =>
                  /\ Len(mem) = LeastCap(Len(last.pre), last.target)
                  /\ last.prior # None => Len(mem) = Len(last.pre))
    /\ [][Len(mem') # Len(mem) => Len(mem') = 2 * Len(mem)]_vars

C5_Witness ==
    /\ InsertDone
    /\ Len(last.pre) = 1
    /\ last.target = 2
    /\ Len(mem) = 4

\* ----------------------------------------------------------------- C6
\* C6: during iteration the pairs yielded and the pairs still stored are
\* together exactly the pairs stored at into_iter, no pair is yielded twice
\* or both yielded and stored; once next returned nothing all slots are
\* empty and next keeps returning nothing.
C6_IterConserves ==
    pc = "iter" =>
        /\ Range(yielded) \cup Entries(mem) = snapshot
        /\ Range(yielded) \cap Entries(mem) = {}
        /\ Cardinality(Range(yielded)) = Len(yielded)
        /\ Len(yielded) + Cardinality(Occupied(mem)) = Cardinality(snapshot)
        /\ last.nones > 0 =>
              /\ Occupied(mem) = {}
              /\ last.ret = None

C6_Witness ==
    /\ pc = "iter"
    /\ last.nones = 2
    /\ Len(yielded) >= 2
    /\ Len(mem) = 8

\* ----------------------------------------------------------------- C7
\* C7: the capacity is at least 1 in every state, every insert call that
\* has to grow ends after finitely many growths, and a finished insert has
\* stored its pair in a slot inside the array.
C7_InsertTerminates ==
    /\ [](Len(mem) >= 1)
    /\ [](InsertDone =>
            \E w \in Occupied(mem) :
                KeyAt(mem, w) = last.key /\ ValAt(mem, w) = last.val)
    /\ (pc = "retry") ~> (pc = "idle")

C7_Witness ==
    /\ InsertDone
    /\ Len(last.pre) = 2
    /\ last.target = 4
    /\ Len(mem) = 8

\* ----------------------------------------------------------------- C8
\* C8: the index generator hands out only indices below the capacity, in
\* the in-order sequence of the implicit tree, each index once, and is
\* done (no current index, empty stack) after the last one; no unchecked
\* slot access is out of bounds.
C8_IndexGenerator ==
    /\ ~ub
    /\ pc = "iter" =>
          /\ indexer.capacity = Len(mem)
          /\ \A i \in 1..Len(emitted) : emitted[i] < Len(mem)
          /\ IsPrefix(emitted, InOrder(0, Len(mem)))
          /\ Cardinality(Range(emitted)) = Len(emitted)
          /\ last.nones > 0 =>
                /\ Range(emitted) = 0..(Len(mem) - 1)
                /\ Len(emitted) = Len(mem)
                /\ indexer.current = None
                /\ indexer.stack = <<>>

C8_Witness ==
    /\ pc = "iter"
    /\ last.nones > 0
    /\ Len(emitted) = 6
    /\ Len(yielded) >= 1

\* ----------------------------------------------------------------- C9
\* C9: before traversal the occupied slots form a binary search tree over
\* absolute indices: every occupied slot under 2i+1 holds a smaller key
\* than slot i, every occupied slot under 2i+2 a greater one, and no two
\* occupied slots hold the same key.
C9_SearchTree ==
    pc # "iter" =>
        \A i \in Occupied(mem), j \in Occupied(mem) :
            /\ InSubtree(j, BiTree_left(i)) => KeyAt(mem, j) < KeyAt(mem, i)
            /\ InSubtree(j, BiTree_right(i)) => KeyAt(mem, j) > KeyAt(mem, i)
            /\ i # j => KeyAt(mem, i) # KeyAt(mem, j)

C9_Witness ==
    /\ pc = "idle"
    /\ {0, 1, 4} \subseteq Occupied(mem)

\* ---------------------------------------------------------------- C10
\* C10: before traversal every occupied slot other than the root has an
\* occupied parent, and the search walk arrives at every stored key's slot.
C10_Connected ==
    pc # "iter" =>
        \A i \in Occupied(mem) :
            /\ i # 0 => BiTree_parrent(i)[1] \in Occupied(mem)
            /\ find_index(mem, KeyAt(mem, i)) = i

C10_Witness ==
    /\ pc = "idle"
    /\ Occupied(mem) = {0, 2, 6, 14}

====
